---------------------------- MODULE Spec2Model ----------------------------
(***************************************************************************)
(* Model of the claim consensus aggregation of advanced_analysis.py:       *)
(* ClaimExtractor / ConsensusAnalyzer / run_advanced_analysis.             *)
(*                                                                         *)
(* Numbers.  The consensus score is a Python float.  The unrounded score   *)
(* is kept exactly, as a fraction [num, den]; the stored, rounded score    *)
(* (round(score, 1)) is kept in tenths, as an integer: 909 stands for 90.9.*)
(* For every pair (supporting, len(claims)) within the bounds used here    *)
(* the float comparisons with 40, 60 and 100 and Python's round(., 1)      *)
(* agree with this exact arithmetic.                                       *)
(***************************************************************************)
EXTENDS Integers, Sequences, FiniteSets, TLC

VARIABLES
    \* ---- run_advanced_analysis (specification Spec)
    pc,              \* position in run_advanced_analysis
    text_files,      \* len(text_files): the paper of file i has paper_id i
    text_idx,        \* number of text files the extraction loop has handled
    all_claims,      \* the list all_claims
    consensus_data,  \* the mapping returned by analyzer.compute_consensus
    claims_json,     \* the file CLAIMS_JSON: <<>> while absent, else <<its content>>
    error_log,       \* the number of errors the extraction loop has logged
    \* ---- one group's score fields (specification SpecScore)
    s_supporting,    \* len(paper_ids) of a group
    s_len_claims,    \* len(claims) of the invocation
    s_fields,        \* <<>>, then <<the score fields of the group's record>>
    \* ---- _get_badge alone (specification SpecBadge)
    b_score,         \* argument score
    b_count1,        \* argument count of the first call
    b_count2,        \* argument count of the second call
    b_badges,        \* <<>>, then the two returned badges
    \* ---- compute_consensus called on one analyzer (specification SpecInvoke)
    inv_claims,      \* the list handed to compute_consensus
    inv_returned,    \* the mappings the invocations returned, the latest last
    inv_encode,      \* the batches the latest invocation handed to self.model.encode
    inv_divisors,    \* the divisors of line 133 in the latest invocation
    inv_similarity,  \* similarity_matrix of the latest invocation, <<>> if none
    \* ---- the keys of two matches (specification SpecNormalize)
    n_first,         \* a findall match: <<subject, predicate, obj>>
    n_second,        \* another findall match
    n_keys,          \* <<>>, then the normalized_claim of the two claims
    n_data,          \* then the mapping compute_consensus returns for them
    \* ---- one analyzer used for several lists (specification SpecReuse)
    r_calls,         \* number of compute_consensus invocations so far
    r_threshold,     \* self.similarity_threshold, in hundredths
    r_claims,        \* the list handed to the latest invocation
    r_groups,        \* the claim_groups dictionary the latest invocation built
    r_result,        \* the mapping the latest invocation returned
    r_earlier,       \* the keys of the claims handed to earlier invocations
    \* ---- two invocations in progress at once (specification SpecConcurrent)
    c_claims,        \* the list handed to each pass
    c_pc,            \* the position of each pass in compute_consensus
    c_idx,           \* the number of claims the grouping loop of each pass took
    c_groups,        \* claim_groups, one dictionary per frame
    c_data,          \* consensus_data, one dictionary per frame
    c_returned,      \* per pass: <<>>, then <<the mapping returned>>
    c_overlap,       \* a pass took a step while the other was in progress
    \* ---- extract_from_text alone (specification SpecExtract)
    x_text,          \* argument text
    x_paper_id,      \* argument paper_id
    x_section,       \* argument section
    x_returned,      \* <<>>, then <<the list returned>>
    \* ---- a list and the list grown by other claims (specification SpecGrow)
    g_list,          \* a list of claims
    g_grown,         \* the list with claims of other keys put in
    g_data,          \* <<>>, then the mappings returned for the two lists
    \* ---- the objects of one invocation (specification SpecObjects)
    o_heap,          \* the dictionaries: o_heap[ref] is the object ref
    o_claims,        \* the list handed to compute_consensus, as references
    o_before,        \* <<>>, then <<the list and its objects at the call>>
    o_returned,      \* <<>>, then <<the mapping, its snippets as references>>
    o_edited,        \* the caller has written to a returned snippet
    \* ---- one call of chunk_text_for_model (specification SpecChunk)
    k_pc,            \* "entry", "loop", "window", "exit", "returned"
    k_text,          \* the kind of the argument text
    k_total,         \* total_length, the number of tokens of the text
    k_start,         \* local start
    k_end,           \* local end
    k_chunks,        \* len(chunks), MaxChunks for that or more
    \* ---- one call of download_papers (specification SpecDownload)
    d_variant,       \* "all_in_one" or "simple": the module of the function
    d_rows,          \* the number of rows iterated
    d_idx,           \* the rows gone through
    d_stats,         \* local stats
    d_files,         \* the target PDFs that exist in PAPERS_DIR
    d_last,          \* <<>>, then <<what the last pass did>>
    d_pc             \* "loop", "returned"

pipeVars   ==
    <<pc, text_files, text_idx, all_claims, consensus_data, claims_json,
      error_log>>
scoreVars  == <<s_supporting, s_len_claims, s_fields>>
badgeVars  == <<b_score, b_count1, b_count2, b_badges>>
invokeVars ==
    <<inv_claims, inv_returned, inv_encode, inv_divisors, inv_similarity>>
normVars   == <<n_first, n_second, n_keys, n_data>>
reuseVars  == <<r_calls, r_threshold, r_claims, r_groups, r_result, r_earlier>>
concVars   ==
    <<c_claims, c_pc, c_idx, c_groups, c_data, c_returned, c_overlap>>
extractVars == <<x_text, x_paper_id, x_section, x_returned>>
growVars   == <<g_list, g_grown, g_data>>
objectVars == <<o_heap, o_claims, o_before, o_returned, o_edited>>
chunkVars  == <<k_pc, k_text, k_total, k_start, k_end, k_chunks>>
downloadVars ==
    <<d_variant, d_rows, d_idx, d_stats, d_files, d_last, d_pc>>
restVars   == <<normVars, reuseVars, concVars, extractVars, growVars,
               objectVars, chunkVars, downloadVars>>
vars       == <<pipeVars, scoreVars, badgeVars, invokeVars, restVars>>

-----------------------------------------------------------------------------
(* Bounds of the model *)

\* Spec: largest number of text files of a run
NumFiles == 5

\* Spec: passes that raise are followed in the runs of at most this many files
MaxFailFiles == 3
\* SpecInvoke: longest list of raw claims handed to compute_consensus
MaxLen == 3
\* SpecInvoke: largest number of invocations on one list
MaxCalls == 2

\* SpecScore: largest number of distinct papers of a group
MaxSupporting == 32
\* SpecScore: largest number of raw claims of an invocation
MaxTotal == 801
\* SpecBadge: largest count handed to _get_badge
MaxCount == 7
\* SpecBadge: scores are the tenths 0.0, 0.1, ... up to MaxScoreTenths / 10
MaxScoreTenths == 1000
\* the longest run of whitespace inside a subject or an object
MaxRun == 2
\* one analyzer used again: the longest list and the number of invocations
MaxReuseLen == 2
MaxReuseCalls == 3
\* two concurrent passes: the longest list of a pass
MaxPassLen == 2
\* the number of pieces re.split cuts a text into
MaxSegments == 2
\* a list grown: the longest list and the most claims put in
MaxBaseLen == 2
MaxAdded == 10
\* the objects of one invocation: the most claim objects
MaxObjects == 3

-----------------------------------------------------------------------------
(* Exact arithmetic for the float score *)

Frac(a, b) == [num |-> a, den |-> b]

\* x >= k for a fraction x with positive denominator and an integer k
FracGE(x, k) == x.num >= k * x.den

\* round(x, 1) in tenths: nearest tenth, a tie going to the even tenth
RoundTenths(x) ==
    LET t   == (10 * x.num) \div x.den
        rem == (10 * x.num) % x.den
    IN  IF 2 * rem > x.den \/ (2 * rem = x.den /\ t % 2 = 1)
        THEN t + 1
        ELSE t

-----------------------------------------------------------------------------
(* ConsensusAnalyzer: the score and the badge *)

\* the score without its cap
ConsensusScoreNoCap(sup, n) == Frac(sup * 100 * 10, n)

\* the score as a plain percentage
ConsensusScorePercent(sup, n) ==
    LET raw == Frac(sup * 100, n)
    IN  IF FracGE(raw, 100) THEN Frac(100, 1) ELSE raw

\* the ratio upside down
ConsensusScoreInverted(sup, n) ==
    IF n * 10 >= 100 * sup THEN Frac(100, 1) ELSE Frac(n * 10, sup)

\* consensus_score = min(100, (supporting / len(claims)) * 100 * 10)
ConsensusScore(sup, n) ==
    LET raw == Frac(sup * 100 * 10, n)
    IN  IF FracGE(raw, 100) THEN Frac(100, 1) ELSE raw

\* weak_consensus for a count of exactly two only
GetBadgeExactlyTwo(score, count) ==
    IF count >= 5 /\ FracGE(score, 60) THEN "strong_consensus"
    ELSE IF count >= 3 /\ FracGE(score, 40) THEN "moderate_consensus"
    ELSE IF count = 2 THEN "weak_consensus"
    ELSE "insufficient_evidence"

_get_badge(score, count) ==
    IF count >= 5 /\ FracGE(score, 60) THEN "strong_consensus"
    ELSE IF count >= 3 /\ FracGE(score, 40) THEN "moderate_consensus"
    ELSE IF count >= 2 THEN "weak_consensus"
    ELSE "insufficient_evidence"

\* the badge taken from the rounded score
ScoreFieldsBadgeOfRounded(sup, n) ==
    LET consensus_score == ConsensusScore(sup, n)
    IN  [ supporting_papers |-> sup,
          consensus_score   |-> RoundTenths(consensus_score),
          confidence_badge  |->
              _get_badge(Frac(RoundTenths(consensus_score), 10), sup) ]

\* The score fields of one record of consensus_data: the badge is taken from
\* the unrounded score, the stored score is rounded to one decimal.
ScoreFields(sup, n) ==
    LET consensus_score == ConsensusScore(sup, n)
    IN  [ supporting_papers |-> sup,
          consensus_score   |-> RoundTenths(consensus_score),
          confidence_badge  |-> _get_badge(consensus_score, sup) ]

-----------------------------------------------------------------------------
(* ClaimExtractor *)

\* Strings.  A Python string is a sequence of chunks: the chunk " " is one
\* whitespace character, any other chunk is a run of non-whitespace
\* characters.  Str gives the string itself.
RECURSIVE Str(_)
Str(chunks) ==
    IF chunks = << >> THEN "" ELSE Head(chunks) \o Str(Tail(chunks))

RECURSIVE LStrip(_)
LStrip(chunks) ==
    IF chunks # << >> /\ Head(chunks) = " "
    THEN LStrip(Tail(chunks)) ELSE chunks

RECURSIVE RStrip(_)
RStrip(chunks) ==
    IF chunks # << >> /\ chunks[Len(chunks)] = " "
    THEN RStrip(SubSeq(chunks, 1, Len(chunks) - 1)) ELSE chunks

\* str.strip()
Strip(chunks) == RStrip(LStrip(chunks))

\* str.lower() of the words used here; a word without capitals is unchanged
LowerChunk(chunk) ==
    CASE chunk = "Radiation"    -> "radiation"
      [] chunk = "Microgravity" -> "microgravity"
      [] chunk = "Factor"       -> "factor"
      [] chunk = "Bone"         -> "bone"
      [] chunk = "Loss"         -> "loss"
      [] chunk = "CAUSES"       -> "causes"
      [] chunk = "Stress"       -> "stress"
      [] chunk = "Heat"         -> "heat"
      [] OTHER                  -> chunk

\* str.lower()
Lower(chunks) == [ i \in DOMAIN chunks |-> LowerChunk(chunks[i]) ]

\* len(sentence.split())
WordCount(chunks) == Cardinality({ i \in DOMAIN chunks : chunks[i] # " " })

\* the words separated by one space each
Spaced(words) ==
    [ i \in 1..(2 * Len(words) - 1) |->
        IF i % 2 = 1 THEN words[(i + 1) \div 2] ELSE " " ]

\* Texts.  A text is given by the pieces re.split(r'[.!?]+', text) cuts it
\* into; each piece carries what pattern.findall returns on the stripped
\* piece for each of the four compiled patterns, in the order of PATTERNS
\* (causal, effect, association, finding).  A findall match is the tuple of
\* the groups of the pattern.
Segment(raw, found) == [ raw |-> raw, found |-> found ]

NoMatches == << << >>, << >>, << >>, << >> >>

\* the piece after the last full stop, and the only piece of the text ""
EmptySegment == Segment(<< >>, NoMatches)

EmptyText == << EmptySegment >>

RadiationMatch ==
    << <<"Radiation">>, <<"increases">>, Spaced(<<"bone", "loss">>) >>

XSegment1 ==
    Segment(Spaced(<<"Radiation", "increases", "bone", "loss,",
                     "as", "shown", "in", "mice">>),
            << <<RadiationMatch>>, << >>, << >>, << >> >>)

\* the same triple found in another sentence
XSegment2 ==
    Segment(Spaced(<<"Radiation", "increases", "bone", "loss;",
                     "the", "effect", "is", "dose", "dependent">>),
            << <<RadiationMatch>>, << >>, << >>, << >> >>)

YSegment ==
    Segment(Spaced(<<"Microgravity", "alters", "gene", "expression,",
                     "in", "all", "tissues">>),
            << << >>,
               << << <<"Microgravity">>, <<"alters">>,
                     Spaced(<<"gene", "expression">>) >> >>,
               << >>, << >> >>)

\* the i-th sentence of ten: it follows a full stop and a space
FillerSegment(i) ==
    Segment(<<" ">> \o Spaced(<<"Factor", ToString(i), "affects", "pathway",
                                ToString(i) \o ",", "in", "this", "review">>),
            << << >>,
               << << Spaced(<<"Factor", ToString(i)>>), <<"affects">>,
                     Spaced(<<"pathway", ToString(i)>>) >> >>,
               << >>, << >> >>)

\* The sample texts: one sentence each, and a review of ten sentences with
\* one match each.  Every sample text is shorter than 5000 characters.
TextX1 == << XSegment1, EmptySegment >>

TextX1b == << XSegment2, EmptySegment >>

TextY1 == << YSegment, EmptySegment >>

TextReview ==
    << XSegment1 >> \o [ i \in 1..9 |-> FillerSegment(i) ] \o << EmptySegment >>

\* f"{subject}_{predicate}_{object}"
NormalizedClaim(subject, predicate, object) ==
    subject \o "_" \o predicate \o "_" \o object

RECURSIVE Concat(_)
Concat(seqs) ==
    IF seqs = << >> THEN << >> ELSE Head(seqs) \o Concat(Tail(seqs))

\* the claim dictionary built for one match
Claim(paper_id, section, sentence, sent_idx, match) ==
    LET subject   == Str(Lower(Strip(match[1])))
        predicate == Str(Lower(Strip(match[2])))
        object    == Str(Lower(Strip(match[3])))
    IN  [ paper_id         |-> paper_id,
          section          |-> section,
          sentence         |-> Str(sentence),
          sentence_idx     |-> sent_idx,
          subject          |-> subject,
          predicate        |-> predicate,
          object           |-> object,
          confidence       |-> Frac(7, 10),
          normalized_claim |-> NormalizedClaim(subject, predicate, object) ]

\* a claim appended for every retained sentence, matched or not
ClaimsOfSentenceUnmatched(segment, sent_idx, paper_id, section) ==
    LET sentence == Strip(segment.raw)
    IN  IF WordCount(sentence) < 5
        THEN << >>
        ELSE << Claim(paper_id, section, sentence, sent_idx,
                      << << >>, << >>, << >> >>) >>

\* sentences of three tokens retained
ClaimsOfSentenceMinThree(segment, sent_idx, paper_id, section) ==
    LET sentence == Strip(segment.raw)
    IN  IF WordCount(sentence) < 3
        THEN << >>
        ELSE Concat([ p \in 1..Len(segment.found) |->
                 [ j \in 1..Len(segment.found[p]) |->
                     Claim(paper_id, section, sentence, sent_idx,
                           segment.found[p][j]) ] ])

\* one claim per pattern that matches: the first match only
ClaimsOfSentenceFirstMatch(segment, sent_idx, paper_id, section) ==
    LET sentence == Strip(segment.raw)
    IN  IF WordCount(sentence) < 5
        THEN << >>
        ELSE Concat([ p \in 1..Len(segment.found) |->
                 IF segment.found[p] = << >> THEN << >>
                 ELSE << Claim(paper_id, section, sentence, sent_idx,
                               segment.found[p][1]) >> ])

\* the claims appended while the loop is at one piece of the text
ClaimsOfSentence(segment, sent_idx, paper_id, section) ==
    LET sentence == Strip(segment.raw)
    IN  IF WordCount(sentence) < 5
        THEN << >>
        ELSE Concat([ p \in 1..Len(segment.found) |->
                 LET matches == SelectSeq(segment.found[p],
                                          LAMBDA match : Len(match) = 3)
                 IN  [ j \in 1..Len(matches) |->
                         Claim(paper_id, section, sentence, sent_idx,
                               matches[j]) ] ])

\* enumerate(sentences) counts from 0
extract_from_text(text, paper_id, section) ==
    Concat([ i \in 1..Len(text) |->
               ClaimsOfSentence(text[i], i - 1, paper_id, section) ])

-----------------------------------------------------------------------------
(* ConsensusAnalyzer.compute_consensus *)

Min(a, b) == IF a <= b THEN a ELSE b

\* the dictionary of an earlier invocation taken up again
GroupsCarriedOver(previous) == previous

\* claim_groups = defaultdict(list): the name is bound to a new, empty
\* dictionary, whatever dictionary an earlier invocation (previous) built
NewGroups(previous) == << >>

\* "for claim in claims: claim_groups[norm].append(claim)"
GroupClaims(claim_groups, claims) ==
    [ norm \in DOMAIN claim_groups \cup
                 { claims[i].normalized_claim : i \in DOMAIN claims } |->
        (IF norm \in DOMAIN claim_groups THEN claim_groups[norm] ELSE << >>)
          \o SelectSeq(claims, LAMBDA c : c.normalized_claim = norm) ]

\* claim_groups: the claims of each normalized_claim, in the order of the list
ClaimGroups(claims) == GroupClaims(NewGroups(<< >>), claims)

\* the raw number of claims of the group
SupportingRawCount(group) == Len(group)

\* supporting = len(list(set(c["paper_id"] for c in group)))
Supporting(group) ==
    Cardinality({ group[i].paper_id : i \in DOMAIN group })

\* the last five members instead of the first five
SupportingSnippetsLast(group) ==
    LET n == Min(5, Len(group))
    IN  [ i \in 1..n |->
            [ paper_id |-> group[Len(group) - n + i].paper_id,
              sentence |-> group[Len(group) - n + i].sentence,
              section  |-> group[Len(group) - n + i].section ] ]

\* for c in group[:5]: paper_id, sentence and section of c
SupportingSnippets(group) ==
    [ i \in 1..Min(5, Len(group)) |->
        [ paper_id |-> group[i].paper_id,
          sentence |-> group[i].sentence,
          section  |-> group[i].section ] ]

\* every claim of the group beyond one per paper counted as contradicting
ConsensusRecordContradictingRest(group, n) ==
    ScoreFields(Supporting(group), n) @@
    [ claim |-> group[1].subject \o " " \o group[1].predicate
                    \o " " \o group[1].object,
      contradicting_papers   |-> Len(group) - Supporting(group),
      supporting_snippets    |-> SupportingSnippets(group),
      contradicting_snippets |-> << >> ]

\* The entry consensus_data[norm_claim] of a group, n being len(claims).
ConsensusRecord(group, n) ==
    ScoreFields(Supporting(group), n) @@
    [ claim |-> group[1].subject \o " " \o group[1].predicate
                    \o " " \o group[1].object,
      contradicting_papers   |-> 0,
      supporting_snippets    |-> SupportingSnippets(group),
      contradicting_snippets |-> << >> ]

\* The embedding vectors are taken from a set of orthogonal unit vectors:
\* the cosine similarity, in tenths, is 10 for equal vectors and 0 otherwise.
cosine_similarity(embeddings) ==
    [ i \in DOMAIN embeddings |->
        [ j \in DOMAIN embeddings |->
            IF embeddings[i] = embeddings[j] THEN 10 ELSE 0 ] ]

\* the filter off by one
CorroboratedOffByOne(claim_groups) ==
    { norm \in DOMAIN claim_groups : ~(Len(claim_groups[norm]) <= 2) }

\* The groups that get a record: "if len(group) < 2: continue".
Corroborated(claim_groups) ==
    { norm \in DOMAIN claim_groups : ~(Len(claim_groups[norm]) < 2) }

\* the similarity wired into the grouping: a claim joins the group of the
\* first claim whose sentence has the same embedding
ComputeConsensusMerging(claims, unique_sentences, embeddings) ==
    IF claims = << >> \/ Len(unique_sentences) <= 1
    THEN IF claims = << >> THEN << >>
         ELSE [ norm_claim \in Corroborated(ClaimGroups(claims)) |->
                  ConsensusRecord(ClaimGroups(claims)[norm_claim], Len(claims)) ]
    ELSE LET Emb(c) ==
                 embeddings[CHOOSE i \in DOMAIN unique_sentences :
                                unique_sentences[i] = c.sentence]
             First(c) ==
                 CHOOSE i \in DOMAIN claims :
                     /\ Emb(claims[i]) = Emb(c)
                     /\ \A j \in 1..(i - 1) : Emb(claims[j]) # Emb(c)
             merged ==
                 [ i \in DOMAIN claims |->
                     [ claims[i] EXCEPT !.normalized_claim =
                           claims[First(claims[i])].normalized_claim ] ]
         IN  [ norm_claim \in Corroborated(ClaimGroups(merged)) |->
                 ConsensusRecord(ClaimGroups(merged)[norm_claim], Len(claims)) ]

\* the similarity used as a filter: a claim stays in the group of its key
\* only if its sentence has the embedding of the group's first sentence
ComputeConsensusThresholded(claims, unique_sentences, embeddings) ==
    IF claims = << >>
    THEN << >>
    ELSE LET Emb(c) ==
                 IF Len(unique_sentences) > 1
                 THEN embeddings[CHOOSE i \in DOMAIN unique_sentences :
                                     unique_sentences[i] = c.sentence]
                 ELSE "u"
             claim_groups == ClaimGroups(claims)
             kept ==
                 [ norm_claim \in DOMAIN claim_groups |->
                     SelectSeq(claim_groups[norm_claim],
                               LAMBDA c : Emb(c) = Emb(claim_groups[norm_claim][1])) ]
         IN  [ norm_claim \in Corroborated(kept) |->
                 ConsensusRecord(kept[norm_claim], Len(claims)) ]

\* similarity_matrix: cosine_similarity(embeddings) for two sentences or
\* more, np.array([[1.0]]) otherwise
SimilarityMatrix(unique_sentences, embeddings) ==
    IF Len(unique_sentences) > 1
    THEN cosine_similarity(embeddings)
    ELSE << <<10>> >>

\* the loop "for norm_claim, group in claim_groups.items()", n being
\* len(claims)
BuildRecords(claim_groups, n) ==
    [ norm_claim \in Corroborated(claim_groups) |->
        ConsensusRecord(claim_groups[norm_claim], n) ]

\* unique_sentences is list(set(...)) in the order the set iterates, and
\* embeddings is what self.model.encode(unique_sentences) returns; encode is
\* called only when there are two sentences or more.
compute_consensus(claims, unique_sentences, embeddings) ==
    IF claims = << >>
    THEN << >>
    ELSE LET claim_groups == ClaimGroups(claims)
             similarity_matrix ==
                 SimilarityMatrix(unique_sentences, embeddings)
         IN  BuildRecords(claim_groups, Len(claims))

\* one sentence per claim handed to encode
EncodeCallsPerClaim(claims, unique_sentences) ==
    IF claims = << >>
    THEN << >>
    ELSE IF Len(unique_sentences) > 1
         THEN << [ i \in DOMAIN claims |-> claims[i].sentence ] >>
         ELSE << >>

\* encode called whatever the list is
EncodeCallsUnguarded(claims, unique_sentences) == << unique_sentences >>

\* The batches handed to self.model.encode by one invocation: none after
\* the early return, none for fewer than two distinct sentences.
EncodeCalls(claims, unique_sentences) ==
    IF claims = << >>
    THEN << >>
    ELSE IF Len(unique_sentences) > 1 THEN << unique_sentences >> ELSE << >>

\* The values of len(claims) by which line 133 divides in one invocation:
\* one division for each group that gets a record.
ScoreDivisors(claims) ==
    IF claims = << >>
    THEN {}
    ELSE { Len(claims) : norm_claim \in Corroborated(ClaimGroups(claims)) }

-----------------------------------------------------------------------------
(* What the embedding step of compute_consensus can see and get *)

RECURSIVE Ascending(_)
\* the numbers of a finite set, smallest first
Ascending(S) ==
    IF S = {} THEN << >>
    ELSE LET m == CHOOSE x \in S : \A y \in S : x <= y
         IN  << m >> \o Ascending(S \ {m})

Reverse(seq) == [ i \in 1..Len(seq) |-> seq[Len(seq) + 1 - i] ]

\* set(c["sentence"] for c in claims)
SentenceSet(claims) == { claims[i].sentence : i \in DOMAIN claims }

\* the distinct sentences in the order of their first occurrence
FirstSeen(claims) ==
    LET first == { i \in DOMAIN claims :
                     \A j \in 1..(i - 1) : claims[j].sentence # claims[i].sentence }
        idx   == Ascending(first)
    IN  [ k \in 1..Len(idx) |-> claims[idx[k]].sentence ]

\* every order in which the set of sentences can iterate
IterationOrders(claims) ==
    LET S == SentenceSet(claims)
    IN  { f \in [1..Cardinality(S) -> S] :
            \A i, j \in 1..Cardinality(S) : i # j => f[i] # f[j] }

\* two of these orders, for the long lists of a whole run
SampleOrders(claims) == { FirstSeen(claims), Reverse(FirstSeen(claims)) }

Vectors == {"u", "v"}

\* every batch of n vectors the model can return
Embeddings(n) == [1..n -> Vectors]

\* two of these batches, for the long lists of a whole run
SampleEmbeddings(n) ==
    { [i \in 1..n |-> "u"], [i \in 1..n |-> IF i % 2 = 0 THEN "v" ELSE "u"] }

-----------------------------------------------------------------------------
(* run_advanced_analysis *)

\* no text: every text has at least one piece
None == << >>

SectionNames == << "results", "conclusion", "abstract" >>

\* The files of one paper: paper_<id>_full.txt with its text and, when
\* sections_file, paper_<id>_sections.json with its content.
PaperFiles(text, sections_file, sections) ==
    [ text |-> text, sections_file |-> sections_file, sections |-> sections ]

PaperInputs ==
    { PaperFiles(EmptyText, FALSE, << >>),
      PaperFiles(TextReview, FALSE, << >>),
      PaperFiles(TextX1, TRUE, [results |-> TextX1]),
      PaperFiles(TextX1, TRUE,
                 [results |-> TextX1, conclusion |-> TextX1,
                  abstract |-> TextX1b]),
      PaperFiles(TextY1, TRUE,
                 [conclusion |-> TextY1, abstract |-> EmptyText]) }

\* sections.get(section_name)
SectionsGet(sections, name) ==
    IF name \in DOMAIN sections THEN sections[name] ELSE None

\* The claims that "for section_name in [...]" has appended to all_claims
\* when it has gone through the first upto section names.
ClaimsOfSections(paper_id, files, upto) ==
    LET OfSection(name) ==
            IF SectionsGet(files.sections, name) \in {None, EmptyText}
            THEN << >>
            ELSE extract_from_text(files.sections[name], paper_id, name)
        RECURSIVE Upto(_)
        Upto(n) == IF n = 0 THEN << >>
                   ELSE Upto(n - 1) \o OfSection(SectionNames[n])
    IN  Upto(upto)

\* One pass of the loop over text_files without an exception: the claims
\* the pass appends to all_claims.
ClaimsOfPaper(paper_id, files) ==
    IF files.sections_file
    THEN ClaimsOfSections(paper_id, files, Len(SectionNames))
    ELSE extract_from_text(files.text, paper_id, "full")

\* Where a pass over the files of a paper can raise: "read" is open() or
\* f.read() of the text file; "sections" is open() or json.load() of the
\* sections file, or sections.get of a document that is no object; a section
\* name is extract_from_text of that section, whose value is no string.
FailurePoints(files) ==
    {"read"} \cup (IF files.sections_file
                   THEN {"sections"} \cup { SectionNames[n] : n \in DOMAIN SectionNames }
                   ELSE {})

\* the claims a pass has appended to all_claims when it raises at the point
ClaimsBeforeFailure(paper_id, files, point) ==
    IF point \in {"read", "sections"}
    THEN << >>
    ELSE LET n == CHOOSE n \in DOMAIN SectionNames : SectionNames[n] = point
         IN  ClaimsOfSections(paper_id, files, n - 1)

PipeInit ==
    /\ pc = "load"
    /\ text_files = 0
    /\ text_idx = 0
    /\ all_claims = << >>
    /\ consensus_data = << >>
    /\ claims_json = << >>
    /\ error_log = 0

\* text_files = list(TEXT_DIR.glob(...)), cut to sample_n; no file: return
LoadTextFiles ==
    /\ pc = "load"
    /\ \E n \in 0..NumFiles :
          /\ text_files' = n
          /\ pc' = IF n = 0 THEN "returned" ELSE "extract"
    /\ UNCHANGED <<text_idx, all_claims, consensus_data, claims_json, error_log>>

\* one pass of "for text_path in text_files" that raises nothing
ExtractPaper ==
    /\ pc = "extract"
    /\ text_idx < text_files
    /\ \E files \in PaperInputs :
          all_claims' = all_claims \o ClaimsOfPaper(text_idx + 1, files)
    /\ text_idx' = text_idx + 1
    /\ pc' = IF text_idx + 1 = text_files THEN "consensus" ELSE "extract"
    /\ UNCHANGED <<text_files, consensus_data, claims_json, error_log>>

\* a pass that raises, with no except clause: the exception leaves
\* run_advanced_analysis
ExtractPaperUncaught ==
    /\ pc = "extract"
    /\ text_idx < text_files
    /\ \E files \in PaperInputs :
          \E point \in FailurePoints(files) :
             all_claims' =
                 all_claims \o ClaimsBeforeFailure(text_idx + 1, files, point)
    /\ pc' = "extract_failed"
    /\ UNCHANGED <<text_files, text_idx, consensus_data, claims_json, error_log>>

\* one pass of "for text_path in text_files" that raises: "except Exception"
\* logs the error and the loop goes on with the next file
ExtractPaperFails ==
    /\ pc = "extract"
    /\ text_idx < text_files
    /\ text_files <= MaxFailFiles
    /\ \E files \in PaperInputs :
          \E point \in FailurePoints(files) :
             all_claims' =
                 all_claims \o ClaimsBeforeFailure(text_idx + 1, files, point)
    /\ error_log' = error_log + 1
    /\ text_idx' = text_idx + 1
    /\ pc' = IF text_idx + 1 = text_files THEN "consensus" ELSE "extract"
    /\ UNCHANGED <<text_files, consensus_data, claims_json>>

\* analyzer = ConsensusAnalyzer(): SentenceTransformer(embedding_model)
\* raises when the model cannot be loaded; nothing catches it
ModelLoadFails ==
    /\ pc = "consensus"
    /\ pc' = "load_failed"
    /\ UNCHANGED <<text_files, text_idx, all_claims, consensus_data, claims_json,
                   error_log>>

\* self.model.encode(unique_sentences) raises; nothing catches it
EncodeFails ==
    /\ pc = "consensus"
    /\ \E unique_sentences \in SampleOrders(all_claims) :
          EncodeCalls(all_claims, unique_sentences) # << >>
    /\ pc' = "encode_failed"
    /\ UNCHANGED <<text_files, text_idx, all_claims, consensus_data, claims_json,
                   error_log>>

\* consensus_data = analyzer.compute_consensus(all_claims)
ComputeConsensus ==
    /\ pc = "consensus"
    /\ \E unique_sentences \in SampleOrders(all_claims) :
          \E embeddings \in SampleEmbeddings(Len(unique_sentences)) :
             consensus_data' =
                 compute_consensus(all_claims, unique_sentences, embeddings)
    /\ pc' = "save"
    /\ UNCHANGED <<text_files, text_idx, all_claims, claims_json, error_log>>

\* total_claims counting the claims of the emitted groups only
ClaimsArtifactCountingEmitted(claims, data) ==
    [ total_claims  |->
          Len(SelectSeq(claims, LAMBDA c : c.normalized_claim \in DOMAIN data)),
      unique_claims |-> Cardinality(DOMAIN data),
      claims        |-> data ]

\* unique_claims counting every key of the raw claims
ClaimsArtifactCountingKeys(claims, data) ==
    [ total_claims  |-> Len(claims),
      unique_claims |->
          Cardinality({ claims[i].normalized_claim : i \in DOMAIN claims }),
      claims        |-> data ]

\* the dictionary handed to json.dump
ClaimsArtifact(claims, data) ==
    [ total_claims  |-> Len(claims),
      unique_claims |-> Cardinality(DOMAIN data),
      claims        |-> data ]

\* json.dump({...}) to CLAIMS_JSON
SaveConsensus ==
    /\ pc = "save"
    /\ claims_json' = << ClaimsArtifact(all_claims, consensus_data) >>
    /\ pc' = "done"
    /\ UNCHANGED <<text_files, text_idx, all_claims, consensus_data, error_log>>

ScoreIdle  == s_supporting = 0 /\ s_len_claims = 0 /\ s_fields = << >>
BadgeIdle  == b_score = Frac(0, 1) /\ b_count1 = 0 /\ b_count2 = 0 /\ b_badges = << >>
InvokeIdle ==
    /\ inv_claims = << >> /\ inv_returned = << >>
    /\ inv_encode = << >> /\ inv_divisors = {} /\ inv_similarity = << >>

NormIdle ==
    /\ n_first = << >> /\ n_second = << >> /\ n_keys = << >> /\ n_data = << >>
ReuseIdle ==
    /\ r_calls = 0 /\ r_threshold = 0 /\ r_claims = << >>
    /\ r_groups = << >> /\ r_result = << >> /\ r_earlier = {}
ConcIdle ==
    /\ c_claims = << >> /\ c_pc = << >> /\ c_idx = << >> /\ c_groups = << >>
    /\ c_data = << >> /\ c_returned = << >> /\ c_overlap = FALSE
ExtractIdle ==
    /\ x_text = << >> /\ x_paper_id = 0 /\ x_section = "" /\ x_returned = << >>
GrowIdle == g_list = << >> /\ g_grown = << >> /\ g_data = << >>
ObjectIdle ==
    /\ o_heap = << >> /\ o_claims = << >> /\ o_before = << >>
    /\ o_returned = << >> /\ o_edited = FALSE
ChunkIdle ==
    /\ k_pc = "idle" /\ k_text = "empty" /\ k_total = 0
    /\ k_start = 0 /\ k_end = 0 /\ k_chunks = 0
DownloadIdle ==
    /\ d_variant = "" /\ d_rows = 0 /\ d_idx = 0 /\ d_stats = << >>
    /\ d_files = {} /\ d_last = << >> /\ d_pc = "idle"
RestIdle ==
    /\ NormIdle /\ ReuseIdle /\ ConcIdle /\ ExtractIdle
    /\ GrowIdle /\ ObjectIdle /\ ChunkIdle /\ DownloadIdle

Init == PipeInit /\ ScoreIdle /\ BadgeIdle /\ InvokeIdle /\ RestIdle

Next ==
    \/ LoadTextFiles /\ UNCHANGED <<scoreVars, badgeVars, invokeVars, restVars>>
    \/ ExtractPaper /\ UNCHANGED <<scoreVars, badgeVars, invokeVars, restVars>>
    \/ ExtractPaperFails /\ UNCHANGED <<scoreVars, badgeVars, invokeVars, restVars>>
    \/ ModelLoadFails /\ UNCHANGED <<scoreVars, badgeVars, invokeVars, restVars>>
    \/ EncodeFails /\ UNCHANGED <<scoreVars, badgeVars, invokeVars, restVars>>
    \/ ComputeConsensus /\ UNCHANGED <<scoreVars, badgeVars, invokeVars, restVars>>
    \/ SaveConsensus /\ UNCHANGED <<scoreVars, badgeVars, invokeVars, restVars>>

Spec == Init /\ [][Next]_vars

PipeIdle ==
    /\ pc = "idle"
    /\ text_files = 0
    /\ text_idx = 0
    /\ all_claims = << >>
    /\ consensus_data = << >>
    /\ claims_json = << >>
    /\ error_log = 0

-----------------------------------------------------------------------------
(* The score fields of one group: supporting = len(paper_ids) and           *)
(* len(claims) drawn from every pair a group of two or more claims allows.  *)

ScoreInit ==
    /\ s_supporting \in 1..MaxSupporting
    /\ s_len_claims \in 2..MaxTotal
    /\ s_supporting <= s_len_claims
    /\ s_fields = << >>
    /\ PipeIdle /\ BadgeIdle /\ InvokeIdle /\ RestIdle

\* the score, its rounding and the badge of the group's record
BuildScoreFields ==
    /\ s_fields = << >>
    /\ s_fields' = << ScoreFields(s_supporting, s_len_claims) >>
    /\ UNCHANGED <<s_supporting, s_len_claims>>

NextScore == BuildScoreFields /\ UNCHANGED <<pipeVars, badgeVars, invokeVars, restVars>>

SpecScore == ScoreInit /\ [][NextScore]_vars

-----------------------------------------------------------------------------
(* _get_badge called with one score and two counts *)

BadgeInit ==
    /\ b_score \in { Frac(t, 10) : t \in 0..MaxScoreTenths }
    /\ b_count1 \in 0..MaxCount
    /\ b_count2 \in b_count1..MaxCount
    /\ b_badges = << >>
    /\ PipeIdle /\ ScoreIdle /\ InvokeIdle /\ RestIdle

GetBadges ==
    /\ b_badges = << >>
    /\ b_badges' = << _get_badge(b_score, b_count1), _get_badge(b_score, b_count2) >>
    /\ UNCHANGED <<b_score, b_count1, b_count2>>

NextBadge == GetBadges /\ UNCHANGED <<pipeVars, scoreVars, invokeVars, restVars>>

SpecBadge == BadgeInit /\ [][NextBadge]_vars

-----------------------------------------------------------------------------
(* compute_consensus invoked repeatedly on one list, on one analyzer *)

\* the raw claims the lists are made of: two papers, three texts
ClaimUniverse ==
    { extract_from_text(text, paper_id, "results")[1] :
        text \in {TextX1, TextX1b, TextY1}, paper_id \in 1..2 }

InvokeInit ==
    /\ inv_claims \in UNION { [1..n -> ClaimUniverse] : n \in 0..MaxLen }
    /\ inv_returned = << >>
    /\ inv_encode = << >>
    /\ inv_divisors = {}
    /\ inv_similarity = << >>
    /\ PipeIdle /\ ScoreIdle /\ BadgeIdle /\ RestIdle

\* analyzer.compute_consensus(inv_claims): the set of sentences iterates in
\* any order and the model returns any batch of vectors
Invoke ==
    /\ Len(inv_returned) < MaxCalls
    /\ \E unique_sentences \in IterationOrders(inv_claims) :
          \E embeddings \in Embeddings(Len(unique_sentences)) :
             /\ inv_encode' = EncodeCalls(inv_claims, unique_sentences)
             /\ inv_similarity' =
                    IF inv_claims = << >>
                    THEN << >>
                    ELSE SimilarityMatrix(unique_sentences, embeddings)
             /\ inv_returned' =
                    Append(inv_returned,
                           compute_consensus(inv_claims, unique_sentences,
                                             embeddings))
    /\ inv_divisors' = ScoreDivisors(inv_claims)
    /\ UNCHANGED inv_claims

NextInvoke == Invoke /\ UNCHANGED <<pipeVars, scoreVars, badgeVars, restVars>>

SpecInvoke == InvokeInit /\ [][NextInvoke]_vars

-----------------------------------------------------------------------------
(* One analyzer whose compute_consensus is invoked on one list after another *)

\* the lists handed to the analyzer
ReuseLists == UNION { [1..n -> ClaimUniverse] : n \in 0..MaxReuseLen }

\* ConsensusAnalyzer(): self.similarity_threshold = 0.75
ReuseInit ==
    /\ r_calls = 0
    /\ r_threshold = 75
    /\ r_claims = << >>
    /\ r_groups = << >>
    /\ r_result = << >>
    /\ r_earlier = {}
    /\ PipeIdle /\ ScoreIdle /\ BadgeIdle /\ InvokeIdle
    /\ NormIdle /\ ConcIdle /\ ExtractIdle /\ GrowIdle
    /\ ObjectIdle /\ ChunkIdle /\ DownloadIdle

\* analyzer.compute_consensus(claims).  The invocation assigns to its
\* locals only: no attribute of self is written, and the sentences, the
\* embeddings and the similarity matrix are not read again.
ReuseInvoke ==
    /\ r_calls < MaxReuseCalls
    /\ \E claims \in ReuseLists :
          /\ r_claims' = claims
          /\ IF claims = << >>
             THEN /\ r_result' = << >>
                  /\ UNCHANGED r_groups
             ELSE LET claim_groups == GroupClaims(NewGroups(r_groups), claims)
                  IN  /\ r_groups' = claim_groups
                      /\ r_result' = BuildRecords(claim_groups, Len(claims))
    /\ r_earlier' =
          r_earlier \cup { r_claims[i].normalized_claim : i \in DOMAIN r_claims }
    /\ r_calls' = r_calls + 1
    /\ UNCHANGED r_threshold

NextReuse ==
    ReuseInvoke
    /\ UNCHANGED <<pipeVars, scoreVars, badgeVars, invokeVars, normVars,
                   concVars, extractVars, growVars, objectVars, chunkVars,
                   downloadVars>>

SpecReuse == ReuseInit /\ [][NextReuse]_vars

-----------------------------------------------------------------------------
(* Two invocations of compute_consensus on one analyzer, their steps        *)
(* interleaved                                                              *)

Passes == {1, 2}

\* the locals of every pass in one place
SharedFrame(pass) == 1

\* The frame holding the locals claim_groups and consensus_data of a pass:
\* every invocation of the method has its own.
Frame(pass) == pass

\* the corpus of each pass: the two corpora hold claims with the same keys
Corpus(pass) ==
    { extract_from_text(TextX1, 2 * pass - 1, "results")[1],
      extract_from_text(TextX1b, 2 * pass, "results")[1],
      extract_from_text(TextY1, 2 * pass, "results")[1] }

PassLists(pass) == UNION { [1..n -> Corpus(pass)] : n \in 0..MaxPassLen }

ConcInit ==
    /\ c_claims \in { <<a, b>> : a \in PassLists(1), b \in PassLists(2) }
    /\ c_pc = [ pass \in Passes |-> "start" ]
    /\ c_idx = [ pass \in Passes |-> 0 ]
    /\ c_groups = [ pass \in Passes |-> << >> ]
    /\ c_data = [ pass \in Passes |-> << >> ]
    /\ c_returned = [ pass \in Passes |-> << >> ]
    /\ c_overlap = FALSE
    /\ PipeIdle /\ ScoreIdle /\ BadgeIdle /\ InvokeIdle
    /\ NormIdle /\ ReuseIdle /\ ExtractIdle /\ GrowIdle
    /\ ObjectIdle /\ ChunkIdle /\ DownloadIdle

\* the other pass is between its entry and its return
OtherInProgress(pass) ==
    \E other \in Passes \ {pass} : c_pc[other] \notin {"start", "returned"}

\* "if not claims: return {}", else claim_groups = defaultdict(list)
PassEnter(pass) ==
    /\ c_pc[pass] = "start"
    /\ IF c_claims[pass] = << >>
       THEN /\ c_pc' = [c_pc EXCEPT ![pass] = "returned"]
            /\ c_returned' = [c_returned EXCEPT ![pass] = << << >> >>]
            /\ UNCHANGED c_groups
       ELSE /\ c_pc' = [c_pc EXCEPT ![pass] = "group"]
            /\ c_groups' = [c_groups EXCEPT ![Frame(pass)] = NewGroups(@)]
            /\ UNCHANGED c_returned
    /\ UNCHANGED <<c_claims, c_idx, c_data>>

\* one pass of "for claim in claims"
PassGroupOne(pass) ==
    /\ c_pc[pass] = "group"
    /\ c_idx[pass] < Len(c_claims[pass])
    /\ c_groups' =
          [c_groups EXCEPT ![Frame(pass)] =
              GroupClaims(@, << c_claims[pass][c_idx[pass] + 1] >>)]
    /\ c_idx' = [c_idx EXCEPT ![pass] = @ + 1]
    /\ UNCHANGED <<c_claims, c_pc, c_data, c_returned>>

\* The sentences, self.model.encode and cosine_similarity: the shared
\* model is read, the results go to locals that are not read again.
PassEmbed(pass) ==
    /\ c_pc[pass] = "group"
    /\ c_idx[pass] = Len(c_claims[pass])
    /\ c_pc' = [c_pc EXCEPT ![pass] = "build"]
    /\ UNCHANGED <<c_claims, c_idx, c_groups, c_data, c_returned>>

\* consensus_data = {} and the loop over claim_groups.items()
PassBuild(pass) ==
    /\ c_pc[pass] = "build"
    /\ c_data' =
          [c_data EXCEPT ![Frame(pass)] =
              BuildRecords(c_groups[Frame(pass)], Len(c_claims[pass]))]
    /\ c_pc' = [c_pc EXCEPT ![pass] = "return"]
    /\ UNCHANGED <<c_claims, c_idx, c_groups, c_returned>>

\* return consensus_data
PassReturn(pass) ==
    /\ c_pc[pass] = "return"
    /\ c_returned' = [c_returned EXCEPT ![pass] = << c_data[Frame(pass)] >>]
    /\ c_pc' = [c_pc EXCEPT ![pass] = "returned"]
    /\ UNCHANGED <<c_claims, c_idx, c_groups, c_data>>

PassStep(pass) ==
    /\ \/ PassEnter(pass)
       \/ PassGroupOne(pass)
       \/ PassEmbed(pass)
       \/ PassBuild(pass)
       \/ PassReturn(pass)
    /\ c_overlap' = (c_overlap \/ OtherInProgress(pass))

NextConcurrent ==
    /\ \E pass \in Passes : PassStep(pass)
    /\ UNCHANGED <<pipeVars, scoreVars, badgeVars, invokeVars, normVars,
                   reuseVars, extractVars, growVars, objectVars, chunkVars,
                   downloadVars>>

SpecConcurrent == ConcInit /\ [][NextConcurrent]_vars

-----------------------------------------------------------------------------
(* extract_from_text called on one text *)

\* a sentence of six words in which no pattern matches
PlainSegment ==
    Segment(<<" ">> \o Spaced(<<"The", "samples", "were", "stored",
                                "at", "night">>),
            NoMatches)

\* three words: the causal pattern matches, the sentence is too short
ShortSegment ==
    Segment(Spaced(<<"Radiation", "causes", "damage">>),
            << << << <<"Radiation">>, <<"causes">>, <<"damage">> >> >>,
               << >>, << >>, << >> >>)

\* a sentence in which the causal and the finding pattern match
TwoPatternSegment ==
    Segment(Spaced(<<"Stress", "causes", "bone", "loss", "in", "mice", "and",
                     "radiation", "reduces", "muscle", "mass,", "as", "one",
                     "study", "showed", "clearly", "today">>),
            << << << <<"Stress">>, <<"causes">>,
                     Spaced(<<"bone", "loss", "in", "mice", "and", "radiatio">>) >> >>,
               << >>, << >>,
               << << Spaced(<<"as", "one", "study">>), <<"showed">>,
                     Spaced(<<"clearly", "today">>) >> >> >>)

\* a sentence in which the causal pattern matches twice, the two matches
\* giving the same triple
DoubleSegment ==
    Segment(Spaced(<<"Heat", "causes", "stress;", "heat", "causes", "stress,",
                     "in", "all", "the", "mice", "today">>),
            << << << <<"Heat">>, <<"causes">>, <<"stress">> >>,
                  << <<" ", "heat">>, <<"causes">>, <<"stress">> >> >>,
               << >>, << >>, << >> >>)

\* the pieces a text is made of here
SegmentPool ==
    { EmptySegment, Segment(<<" ">>, NoMatches), PlainSegment, ShortSegment,
      XSegment1, YSegment, TwoPatternSegment, DoubleSegment }

ExtractInit ==
    /\ x_text \in UNION { [1..n -> SegmentPool] : n \in 1..MaxSegments }
    /\ x_paper_id \in 1..2
    /\ x_section \in {"results", "full"}
    /\ x_returned = << >>
    /\ PipeIdle /\ ScoreIdle /\ BadgeIdle /\ InvokeIdle
    /\ NormIdle /\ ReuseIdle /\ ConcIdle /\ GrowIdle
    /\ ObjectIdle /\ ChunkIdle /\ DownloadIdle

\* extractor.extract_from_text(text, paper_id, section)
ExtractText ==
    /\ x_returned = << >>
    /\ x_returned' = << extract_from_text(x_text, x_paper_id, x_section) >>
    /\ UNCHANGED <<x_text, x_paper_id, x_section>>

NextExtract ==
    ExtractText
    /\ UNCHANGED <<pipeVars, scoreVars, badgeVars, invokeVars, normVars,
                   reuseVars, concVars, growVars, objectVars, chunkVars,
                   downloadVars>>

SpecExtract == ExtractInit /\ [][NextExtract]_vars

-----------------------------------------------------------------------------
(* The claims built for two matches of one pattern *)

\* the words with runs of whitespace: lead and trail characters around
\* them, run characters between two words
Padded(words, lead, run, trail) ==
    LET width == run + 1
    IN  [ i \in 1..lead |-> " " ] \o
        [ i \in 1..((Len(words) - 1) * width + 1) |->
            IF (i - 1) % width = 0 THEN words[((i - 1) \div width) + 1]
            ELSE " " ] \o
        [ i \in 1..trail |-> " " ]

\* What group 1 can be: "[\w\s]{3,30}?" takes whitespace like word
\* characters, around and between the words.
Subjects ==
    { Padded(words, lead, run, trail) :
        words \in { <<"bone", "loss">>, <<"Bone", "Loss">>, <<"radiation">>,
                    <<"abc_causes_def">> },
        lead \in 0..1, run \in 1..MaxRun, trail \in 0..1 }

\* group 2 with re.IGNORECASE
Predicates == { <<"causes">>, <<"CAUSES">> }

\* group 3, "[\w\s]{3,30}"
Objects ==
    { Padded(words, lead, run, 0) :
        words \in { <<"weak", "bones">>, <<"ghi">> },
        lead \in 0..1, run \in 1..MaxRun }

NormInit ==
    /\ n_first \in { << Spaced(words), <<"causes">>, Spaced(<<"weak", "bones">>) >> :
                       words \in { <<"bone", "loss">>, <<"radiation">> } }
                   \cup { << <<"abc">>, <<"causes">>, <<"def_causes_ghi">> >> }
    /\ n_second \in Subjects \X Predicates \X Objects
    /\ n_keys = << >>
    /\ n_data = << >>
    /\ PipeIdle /\ ScoreIdle /\ BadgeIdle /\ InvokeIdle
    /\ ReuseIdle /\ ConcIdle /\ ExtractIdle /\ GrowIdle
    /\ ObjectIdle /\ ChunkIdle /\ DownloadIdle

\* the claim dictionary of a match found in a sentence of a paper
MatchClaim(paper_id, match) ==
    Claim(paper_id, "results",
          match[1] \o <<" ">> \o match[2] \o <<" ">> \o match[3], 0, match)

\* the claim dictionaries of the two matches, found in two papers, and the
\* mapping compute_consensus returns for the two claims
NormalizeBoth ==
    /\ n_keys = << >>
    /\ LET claims == << MatchClaim(1, n_first), MatchClaim(2, n_second) >>
       IN  /\ n_keys' = << claims[1].normalized_claim, claims[2].normalized_claim >>
           /\ n_data' =
                 compute_consensus(claims, FirstSeen(claims),
                     [ i \in 1..Cardinality(SentenceSet(claims)) |-> "u" ])
    /\ UNCHANGED <<n_first, n_second>>

NextNormalize ==
    NormalizeBoth
    /\ UNCHANGED <<pipeVars, scoreVars, badgeVars, invokeVars, reuseVars,
                   concVars, extractVars, growVars, objectVars, chunkVars,
                   downloadVars>>

SpecNormalize == NormInit /\ [][NextNormalize]_vars

-----------------------------------------------------------------------------
(* compute_consensus on a list and on the list grown by other claims *)

\* The i-th claim put in: the claims 2j-1 and 2j carry the key of filler
\* sentence j and come from the papers 100 + 2j-1 and 100 + 2j.
AddedClaim(i) ==
    extract_from_text(<< FillerSegment((i + 1) \div 2) >>, 100 + i, "results")[1]

\* the claims that can be put in, in the order they are put in
AddedClaims == [ i \in 1..MaxAdded |-> AddedClaim(i) ]

GrowInit ==
    /\ g_list \in UNION { [1..n -> ClaimUniverse] : n \in 0..MaxBaseLen }
    /\ \E m \in 0..MaxAdded, k \in 0..Len(g_list) :
          g_grown = SubSeq(g_list, 1, k) \o SubSeq(AddedClaims, 1, m)
                        \o SubSeq(g_list, k + 1, Len(g_list))
    /\ g_data = << >>
    /\ PipeIdle /\ ScoreIdle /\ BadgeIdle /\ InvokeIdle
    /\ NormIdle /\ ReuseIdle /\ ConcIdle /\ ExtractIdle
    /\ ObjectIdle /\ ChunkIdle /\ DownloadIdle

\* analyzer.compute_consensus(g_list), analyzer.compute_consensus(g_grown)
ComputeBoth ==
    /\ g_data = << >>
    /\ g_data' =
          << compute_consensus(g_list, FirstSeen(g_list),
                 [ i \in 1..Cardinality(SentenceSet(g_list)) |-> "u" ]),
             compute_consensus(g_grown, FirstSeen(g_grown),
                 [ i \in 1..Cardinality(SentenceSet(g_grown)) |-> "u" ]) >>
    /\ UNCHANGED <<g_list, g_grown>>

NextGrow ==
    ComputeBoth
    /\ UNCHANGED <<pipeVars, scoreVars, badgeVars, invokeVars, normVars,
                   reuseVars, concVars, extractVars, objectVars, chunkVars,
                   downloadVars>>

SpecGrow == GrowInit /\ [][NextGrow]_vars

-----------------------------------------------------------------------------
(* The objects compute_consensus reads and creates *)

\* the raw claim object itself handed out as snippet
SnippetRefRaw(claim_ref, new_ref) == claim_ref

\* The object a snippet is: the dictionary display in the comprehension of
\* supporting_snippets makes a new dictionary for the claim c.
SnippetRef(claim_ref, new_ref) == new_ref

ObjectInit ==
    /\ o_heap \in UNION { [1..n -> ClaimUniverse] : n \in 0..MaxObjects }
    /\ o_claims = [ i \in 1..Len(o_heap) |-> i ]
    /\ o_before = << >>
    /\ o_returned = << >>
    /\ o_edited = FALSE
    /\ PipeIdle /\ ScoreIdle /\ BadgeIdle /\ InvokeIdle
    /\ NormIdle /\ ReuseIdle /\ ConcIdle /\ ExtractIdle
    /\ GrowIdle /\ ChunkIdle /\ DownloadIdle

\* analyzer.compute_consensus(claims): the claim objects are read; the
\* groups hold references to them; each snippet is a new object.
CallOnObjects ==
    /\ o_before = << >>
    /\ LET claims  == [ i \in DOMAIN o_claims |-> o_heap[o_claims[i]] ]
           data    == compute_consensus(claims, FirstSeen(claims),
                          [ i \in 1..Cardinality(SentenceSet(claims)) |-> "u" ])
           members(k) ==
               Ascending({ i \in DOMAIN claims : claims[i].normalized_claim = k })
           shown   == UNION { { members(k)[j] :
                                  j \in DOMAIN data[k].supporting_snippets } :
                              k \in DOMAIN data }
           rank(i) == Cardinality({ j \in shown : j <= i })
           snippet(k, j) == data[k].supporting_snippets[j]
       IN  /\ o_heap' =
                 o_heap \o
                 [ r \in 1..Cardinality(shown) |->
                     LET i == CHOOSE i \in shown : rank(i) = r
                     IN  [ paper_id |-> claims[i].paper_id,
                           sentence |-> claims[i].sentence,
                           section  |-> claims[i].section ] ]
           /\ o_returned' =
                 << [ k \in DOMAIN data |->
                        [ data[k] EXCEPT !.supporting_snippets =
                            [ j \in DOMAIN data[k].supporting_snippets |->
                                SnippetRef(o_claims[members(k)[j]],
                                           Len(o_heap) + rank(members(k)[j])) ] ] ] >>
    /\ o_before' = << [ claims |-> o_claims, heap |-> o_heap ] >>
    /\ UNCHANGED <<o_claims, o_edited>>

\* the caller writes to a snippet of the returned mapping
EditSnippet ==
    /\ o_returned # << >>
    /\ ~o_edited
    /\ \E k \in DOMAIN o_returned[1] :
          \E j \in DOMAIN o_returned[1][k].supporting_snippets :
             o_heap' =
                 [ o_heap EXCEPT
                     ![o_returned[1][k].supporting_snippets[j]].sentence = "edited" ]
    /\ o_edited' = TRUE
    /\ UNCHANGED <<o_claims, o_before, o_returned>>

NextObjects ==
    (CallOnObjects \/ EditSnippet)
    /\ UNCHANGED <<pipeVars, scoreVars, badgeVars, invokeVars, normVars,
                   reuseVars, concVars, extractVars, growVars, chunkVars,
                   downloadVars>>

SpecObjects == ObjectInit /\ [][NextObjects]_vars

-----------------------------------------------------------------------------
\* chunk_text_for_model (src/nasa_pipeline_all_in_one.py), one call with the
\* default max_tokens and overlap.  The text is given by what the function
\* reads of it: whether it is empty, the length of text.strip(), and the
\* number of tokens the tokenizer makes of it.  The list of chunks is kept as
\* its length, MaxChunks standing for MaxChunks or more.

CHUNK_TOKENS  == 8000
CHUNK_OVERLAP == 200
MinChunkChars == 100
MaxTokens     == 8300
MaxChunks     == 4

TextKinds == {"empty", "blank", "short", "long"}

\* len(text.strip()) of a text of each kind, as far as line 581 tells them apart
StrippedLen(kind) ==
    CASE kind = "empty" -> 0
      [] kind = "blank" -> 0
      [] kind = "short" -> MinChunkChars - 1
      [] kind = "long"  -> MinChunkChars

ChunkInit ==
    /\ k_pc = "entry"
    /\ k_text \in TextKinds
    /\ k_total \in 0..MaxTokens
    /\ (k_text # "long" => k_total = 0)
    /\ k_start = 0 /\ k_end = 0 /\ k_chunks = 0
    /\ PipeIdle /\ ScoreIdle /\ BadgeIdle /\ InvokeIdle
    /\ NormIdle /\ ReuseIdle /\ ConcIdle /\ ExtractIdle
    /\ GrowIdle /\ ObjectIdle /\ DownloadIdle

\* lines 581-582: a text that is empty or short is returned whole
ChunkShortText ==
    /\ k_pc = "entry"
    /\ k_text = "empty" \/ StrippedLen(k_text) < MinChunkChars
    /\ k_pc' = "returned"
    /\ k_chunks' = IF k_text = "empty" THEN 0 ELSE 1
    /\ UNCHANGED <<k_text, k_total, k_start, k_end>>

\* lines 586-591: the tokenizer gives total_length tokens
ChunkTokenize ==
    /\ k_pc = "entry"
    /\ ~(k_text = "empty" \/ StrippedLen(k_text) < MinChunkChars)
    /\ k_pc' = "loop"
    /\ k_start' = 0
    /\ k_chunks' = 0
    /\ UNCHANGED <<k_text, k_total, k_end>>

\* line 586 raises: lines 612-630 split the text at '. ' instead
ChunkTokenizeFails ==
    /\ k_pc = "entry"
    /\ ~(k_text = "empty" \/ StrippedLen(k_text) < MinChunkChars)
    /\ k_pc' = "returned"
    /\ \E n \in 1..MaxChunks : k_chunks' = n
    /\ UNCHANGED <<k_text, k_total, k_start, k_end>>

\* line 606
NextStart(end) == end - CHUNK_OVERLAP

\* line 593 true: the body is entered
ChunkLoopEnters ==
    /\ k_pc = "loop"
    /\ k_start < k_total
    /\ k_pc' = "window"
    /\ UNCHANGED <<k_text, k_total, k_start, k_end, k_chunks>>

\* lines 594-608: the body of the while loop
ChunkWindow ==
    /\ k_pc = "window"
    /\ LET end   == Min(k_start + CHUNK_TOKENS, k_total)
           start == NextStart(end)
       IN  /\ k_end' = end
           /\ k_chunks' = Min(k_chunks + 1, MaxChunks)
           /\ k_start' = start
           /\ k_pc' = IF start >= k_total THEN "exit" ELSE "loop"
    /\ UNCHANGED <<k_text, k_total>>

\* line 593 false
ChunkLoopEnds ==
    /\ k_pc = "loop"
    /\ ~(k_start < k_total)
    /\ k_pc' = "exit"
    /\ UNCHANGED <<k_text, k_total, k_start, k_end, k_chunks>>

\* line 610
ChunkReturn ==
    /\ k_pc = "exit"
    /\ k_pc' = "returned"
    /\ k_chunks' = IF k_chunks > 0 THEN k_chunks ELSE 1
    /\ UNCHANGED <<k_text, k_total, k_start, k_end>>

NextChunk ==
    (\/ ChunkShortText \/ ChunkTokenize \/ ChunkTokenizeFails
     \/ ChunkLoopEnters \/ ChunkWindow \/ ChunkLoopEnds \/ ChunkReturn)
    /\ UNCHANGED <<pipeVars, scoreVars, badgeVars, invokeVars, normVars,
                   reuseVars, concVars, extractVars, growVars, objectVars,
                   downloadVars>>

SpecChunk == ChunkInit /\ [][NextChunk]_vars

\* the call runs on: the interpreter takes the next step whenever there is one
SpecChunkFair == SpecChunk /\ WF_vars(NextChunk)

-----------------------------------------------------------------------------
\* download_papers (src/nasa_pipeline_all_in_one.py and
\* src/nasa_pipeline_simple.py), one call.  A row is given by what the loop
\* body meets for it: the name of its target PDF, whether reading its
\* columns raises, what becomes of the local copy and of the request.  The
\* directory PAPERS_DIR is the set of the target names that exist.

MaxRows == 3

TargetNames == {"1_a.pdf", "2_b.pdf"}

AllInOneStats ==
    [ downloaded |-> 0, failed |-> 0, html_saved |-> 0, already_exists |-> 0 ]

SimpleStats == [ downloaded |-> 0, failed |-> 0, skipped |-> 0 ]

\* stats[key] += 1
Count(stats, key) == [ stats EXCEPT ![key] = @ + 1 ]

\* the sum of the counters
RECURSIVE SumOver(_, _)
SumOver(stats, keys) ==
    IF keys = {} THEN 0
    ELSE LET key == CHOOSE key \in keys : TRUE
         IN  stats[key] + SumOver(stats, keys \ {key})

StatsTotal(stats) == SumOver(stats, DOMAIN stats)

\* raises: lines 208-217 raise (outer except).  local: the row has no
\* pdf_path or none that exists, shutil.copy2 succeeds, or it raises.
\* link: the row has none, or the request gives a PDF that is written, a
\* page that is no PDF, or raises (requests.get, raise_for_status, the write).
AllInOneRows ==
    [ fname  : TargetNames,
      raises : BOOLEAN,
      local  : {"none", "copied", "copy_fails"},
      link   : {"none", "pdf", "html", "error"} ]

\* what the pass has done: the counters, the directory, whether
\* fname.exists() was true, whether shutil.copy2 and requests.get were called
Effect(stats, files, existed, copy, get) ==
    [ stats |-> stats, files |-> files,
      existed |-> existed, copy |-> copy, get |-> get ]

\* a failed copy counted as a failed row
CopyFailedCounted(stats) == Count(stats, "failed")

\* lines 229-230: the failed copy is logged
CopyFailed(stats) == stats

\* lines 206-261: the body of the loop for one row
ProcessRow(row, stats, files) ==
    IF row.raises
    THEN Effect(Count(stats, "failed"), files, FALSE, FALSE, FALSE)
    ELSE IF row.fname \in files
    THEN Effect(Count(stats, "already_exists"), files, TRUE, FALSE, FALSE)
    ELSE IF row.local = "copied"
    THEN Effect(Count(stats, "downloaded"), files \cup {row.fname},
                FALSE, TRUE, FALSE)
    ELSE LET copy  == row.local = "copy_fails"
             after == IF copy THEN CopyFailed(stats) ELSE stats
         IN  CASE row.link = "none" ->
                    Effect(Count(after, "failed"), files, FALSE, copy, FALSE)
               [] row.link = "pdf" ->
                    Effect(Count(after, "downloaded"),
                           files \cup {row.fname}, FALSE, copy, TRUE)
               [] row.link = "html" ->
                    Effect(Count(after, "html_saved"), files, FALSE, copy, TRUE)
               [] row.link = "error" ->
                    Effect(Count(after, "failed"), files, FALSE, copy, TRUE)

\* nasa_pipeline_simple: the request gives a PDF with status 200, something
\* else, or the try block raises
SimpleRows ==
    [ fname : TargetNames, link : {"pdf", "other", "error"} ]

\* src/nasa_pipeline_simple.py lines 108-143: the body of the loop for one row
ProcessRowSimple(row, stats, files) ==
    IF row.fname \in files
    THEN Effect(Count(stats, "skipped"), files, TRUE, FALSE, FALSE)
    ELSE CASE row.link = "pdf" ->
                Effect(Count(stats, "downloaded"), files \cup {row.fname},
                       FALSE, FALSE, TRUE)
           [] row.link = "other" ->
                Effect(Count(stats, "failed"), files, FALSE, FALSE, TRUE)
           [] row.link = "error" ->
                Effect(Count(stats, "failed"), files, FALSE, FALSE,
                       TRUE)

DownloadInit ==
    /\ d_variant \in {"all_in_one", "simple"}
    /\ d_rows \in 0..MaxRows
    /\ d_idx = 0
    /\ d_stats = IF d_variant = "simple" THEN SimpleStats ELSE AllInOneStats
    /\ d_files \in SUBSET TargetNames
    /\ d_last = << >>
    /\ d_pc = "loop"
    /\ PipeIdle /\ ScoreIdle /\ BadgeIdle /\ InvokeIdle
    /\ NormIdle /\ ReuseIdle /\ ConcIdle /\ ExtractIdle
    /\ GrowIdle /\ ObjectIdle /\ ChunkIdle

\* one pass of "for row in tqdm(rows, ...)" of nasa_pipeline_all_in_one
DownloadRow ==
    /\ d_pc = "loop"
    /\ d_variant = "all_in_one"
    /\ d_idx < d_rows
    /\ \E row \in AllInOneRows :
          LET done == ProcessRow(row, d_stats, d_files)
          IN  /\ d_stats' = done.stats
              /\ d_files' = done.files
              /\ d_last' = << done >>
    /\ d_idx' = d_idx + 1
    /\ UNCHANGED <<d_variant, d_rows, d_pc>>

\* one pass of "for _, row in tqdm(df.iterrows(), ...)" of nasa_pipeline_simple
DownloadRowSimple ==
    /\ d_pc = "loop"
    /\ d_variant = "simple"
    /\ d_idx < d_rows
    /\ \E row \in SimpleRows :
          LET done == ProcessRowSimple(row, d_stats, d_files)
          IN  /\ d_stats' = done.stats
              /\ d_files' = done.files
              /\ d_last' = << done >>
    /\ d_idx' = d_idx + 1
    /\ UNCHANGED <<d_variant, d_rows, d_pc>>

\* return stats
DownloadReturn ==
    /\ d_pc = "loop"
    /\ d_idx = d_rows
    /\ d_pc' = "returned"
    /\ UNCHANGED <<d_variant, d_rows, d_idx, d_stats, d_files, d_last>>

NextDownload ==
    (DownloadRow \/ DownloadRowSimple \/ DownloadReturn)
    /\ UNCHANGED <<pipeVars, scoreVars, badgeVars, invokeVars, normVars,
                   reuseVars, concVars, extractVars, growVars, objectVars,
                   chunkVars>>

SpecDownload == DownloadInit /\ [][NextDownload]_vars

-----------------------------------------------------------------------------
(* Properties of the records of a run (specification Spec) *)

\* compute_consensus has returned
Emitted == pc \in {"save", "done"}

\* the places in all_claims of the raw claims with key norm
GroupIdx(norm) ==
    { i \in DOMAIN all_claims : all_claims[i].normalized_claim = norm }

\* the keys the raw claims carry
Keys == { all_claims[i].normalized_claim : i \in DOMAIN all_claims }

Abs(x) == IF x < 0 THEN -x ELSE x

\* C1: the supporting_papers of every record is the number of distinct
\* paper_id values among the raw claims with the record's key (several
\* claims of one paper count once).
C1_SupportingCountsDistinctPapers ==
    Emitted =>
        \A k \in DOMAIN consensus_data :
            consensus_data[k].supporting_papers =
                Cardinality({ all_claims[i].paper_id : i \in GroupIdx(k) })

\* a record whose group holds more claims than papers
C1_Witness ==
    /\ Emitted
    /\ \E k \in DOMAIN consensus_data :
          /\ consensus_data[k].supporting_papers >= 2
          /\ consensus_data[k].supporting_papers < Cardinality(GroupIdx(k))

\* C2: every record has supporting_papers >= 2 (three claims of one paper
\* with one key give no record).
C2_EveryRecordHasTwoSources ==
    Emitted =>
        \A k \in DOMAIN consensus_data :
            consensus_data[k].supporting_papers >= 2

C4_ScoreBound ==
    Emitted =>
        \A k \in DOMAIN consensus_data :
            /\ 0 <= consensus_data[k].consensus_score
            /\ consensus_data[k].consensus_score <= 1000

\* a run with a record at the cap and a record below it
C4_Witness ==
    /\ Emitted
    /\ \E k \in DOMAIN consensus_data : consensus_data[k].consensus_score = 1000
    /\ \E k \in DOMAIN consensus_data :
          /\ 0 < consensus_data[k].consensus_score
          /\ consensus_data[k].consensus_score < 1000

\* C5: the consensus_score of every record is min(100, supporting_papers *
\* 1000 / N) rounded to one decimal, N being the number of all raw claims of
\* the invocation: the stored tenth is a nearest tenth of that value.  Five
\* sources under one key among 50 raw claims give 100 and strong_consensus.
C5_ScoreFormula ==
    Emitted =>
        \A k \in DOMAIN consensus_data :
            LET rec == consensus_data[k]
                N   == Len(all_claims)
                \* N * 10 * min(100, supporting_papers * 1000 / N)
                exact == Min(1000 * N, 10000 * rec.supporting_papers)
            IN  /\ 2 * Abs(rec.consensus_score * N - exact) <= N
                /\ (rec.supporting_papers = 5 /\ N = 50) =>
                       /\ rec.consensus_score = 1000
                       /\ rec.confidence_badge = "strong_consensus"

\* five sources under one key among 50 raw claims
C5_Witness ==
    /\ Emitted
    /\ Len(all_claims) = 50
    /\ \E k \in DOMAIN consensus_data :
          /\ consensus_data[k].supporting_papers = 5
          /\ Cardinality(GroupIdx(k)) = 5
          /\ consensus_data[k].consensus_score = 1000

\* C8: no record of the written claims artifact has the badge
\* insufficient_evidence.
C8_NoInsufficientEvidence ==
    \A w \in DOMAIN claims_json :
        \A k \in DOMAIN claims_json[w].claims :
            claims_json[w].claims[k].confidence_badge # "insufficient_evidence"

\* C9: supporting_snippets is the first min(5, group size) members of the
\* record's group in the order of the input list, each reduced to paper_id,
\* sentence and section; its length is between 2 and 5.
C9_SnippetsAreFirstFive ==
    Emitted =>
        \A k \in DOMAIN consensus_data :
            LET snips == consensus_data[k].supporting_snippets
                idx   == Ascending(GroupIdx(k))
            IN  /\ Len(snips) = Min(5, Len(idx))
                /\ 2 <= Len(snips) /\ Len(snips) <= 5
                /\ \A j \in 1..Len(snips) :
                      snips[j] = [ paper_id |-> all_claims[idx[j]].paper_id,
                                   sentence |-> all_claims[idx[j]].sentence,
                                   section  |-> all_claims[idx[j]].section ]

\* a record whose group has more than five members, the sixth differing
\* from the first
C9_Witness ==
    /\ Emitted
    /\ \E k \in DOMAIN consensus_data :
          LET idx == Ascending(GroupIdx(k))
          IN  /\ Len(idx) > 5
              /\ Len(consensus_data[k].supporting_snippets) = 5
              /\ all_claims[idx[6]] # all_claims[idx[1]]

\* the run is over: it returned early, raised, or wrote the artifact
RunOver == pc \in {"returned", "load_failed", "encode_failed", "done"}

\* C12: a run that extracted no claims, for lack of text files or of
\* matches, ends with the artifact written as total_claims = 0,
\* unique_claims = 0, claims = {}.
C12_EmptyRunWritesEmptyArtifact ==
    (pc \in {"returned", "done"} /\ all_claims = << >>) =>
        claims_json = << [ total_claims  |-> 0,
                           unique_claims |-> 0,
                           claims        |-> << >> ] >>

\* C13: a failure of the embedding provider, at loading the model or at
\* encoding the sentences, does not end the run: the run goes on to the
\* exact-key mapping and the artifact.
C13_ProviderFailureDoesNotAbort ==
    /\ pc \notin {"load_failed", "encode_failed"}
    /\ RunOver /\ text_files > 0 => claims_json # << >>

\* C30: in the artifact, twice unique_claims is at most total_claims, and
\* the supporting_papers of every record is at most the number of raw claims
\* with the record's key.
C30_UniqueAtMostHalfOfTotal ==
    \A w \in DOMAIN claims_json :
        /\ 2 * claims_json[w].unique_claims <= claims_json[w].total_claims
        /\ \A k \in DOMAIN claims_json[w].claims :
               claims_json[w].claims[k].supporting_papers
                   <= Cardinality(GroupIdx(k))

\* an artifact of two records or more, written by a run with a dropped
\* singleton key, a record of exactly two claims of two papers and a record
\* with fewer papers than claims
C30_Witness ==
    /\ claims_json # << >>
    /\ claims_json[1].unique_claims >= 2
    /\ \E k \in Keys : Cardinality(GroupIdx(k)) = 1
    /\ \E k \in DOMAIN claims_json[1].claims :
          /\ Cardinality(GroupIdx(k)) = 2
          /\ claims_json[1].claims[k].supporting_papers = 2
    /\ \E k \in DOMAIN claims_json[1].claims :
          claims_json[1].claims[k].supporting_papers < Cardinality(GroupIdx(k))

\* C28: an error raised while the files of one paper are read or their
\* claims extracted is logged and stays in its pass: the pass ends as a pass
\* does, with the claims collected so far still at the head of all_claims;
\* the loop comes to the consensus step only when every file has had its
\* pass; and the run that goes on to its end writes the artifact with all
\* the claims collected.
C28_ExtractionFailureIsolated ==
    /\ [](/\ pc # "extract_failed"
          /\ error_log <= text_idx
          /\ pc \in {"consensus", "save", "done"} => text_idx = text_files
          /\ pc = "done" =>
                 claims_json = << ClaimsArtifact(all_claims, consensus_data) >>)
    /\ [][error_log' # error_log =>
             /\ error_log' = error_log + 1
             /\ text_idx' = text_idx + 1
             /\ pc' \in {"extract", "consensus"}
             /\ Len(all_claims') >= Len(all_claims)
             /\ SubSeq(all_claims', 1, Len(all_claims)) = all_claims]_vars

\* a run of three files, one of which raised after claims of an earlier
\* paper were collected, has written an artifact with a record
C28_Witness ==
    /\ pc = "done"
    /\ text_files = 3
    /\ error_log = 1
    /\ claims_json # << >>
    /\ claims_json[1].total_claims = Len(all_claims)
    /\ claims_json[1].unique_claims > 0

\* C14: in the artifact, total_claims is the number of claims extracted in
\* the run and unique_claims is the number of entries of the mapping
\* written with it.
C14_ArtifactCounts ==
    claims_json # << >> =>
        /\ claims_json[1].total_claims = Len(all_claims)
        /\ claims_json[1].unique_claims =
               Cardinality(DOMAIN claims_json[1].claims)

\* an artifact with a record, written by a run that also extracted a claim
\* whose group was dropped
C14_Witness ==
    /\ claims_json # << >>
    /\ DOMAIN claims_json[1].claims # {}
    /\ \E i \in DOMAIN all_claims :
          all_claims[i].normalized_claim \notin DOMAIN claims_json[1].claims

\* C19: every emitted record has contradicting_papers = 0 and no
\* contradicting snippet.
C19_NoContradictions ==
    Emitted =>
        \A k \in DOMAIN consensus_data :
            /\ consensus_data[k].contradicting_papers = 0
            /\ consensus_data[k].contradicting_snippets = << >>

\* a record of a group with more claims than papers
C19_Witness ==
    /\ Emitted
    /\ \E k \in DOMAIN consensus_data :
          Cardinality(GroupIdx(k)) > consensus_data[k].supporting_papers

-----------------------------------------------------------------------------
(* Properties of the score fields (specification SpecScore) *)

\* the ordered threshold rules, on a score in tenths
BadgeRule(tenths, sup) ==
    IF sup >= 5 /\ tenths >= 600 THEN "strong_consensus"
    ELSE IF sup >= 3 /\ tenths >= 400 THEN "moderate_consensus"
    ELSE IF sup >= 2 THEN "weak_consensus"
    ELSE "insufficient_evidence"

\* C6 as stated: the badge follows from the record's supporting_papers and
\* its (stored) consensus_score by the ordered threshold rules.
C6_BadgeFromStoredScore ==
    \A w \in DOMAIN s_fields :
        s_fields[w].confidence_badge =
            BadgeRule(s_fields[w].consensus_score, s_fields[w].supporting_papers)

\* C6, amended: the badge follows by the ordered threshold rules from the
\* record's supporting_papers and the score before rounding, min(100,
\* supporting_papers * 1000 / N); two distinct sources give weak_consensus
\* whatever N is.
C6_BadgeFromUnroundedScore ==
    \A w \in DOMAIN s_fields :
        LET f == s_fields[w]
            \* N * min(100, supporting_papers * 1000 / N)
            scoreN == Min(100 * s_len_claims, 1000 * f.supporting_papers)
        IN  /\ f.supporting_papers = s_supporting
            /\ f.confidence_badge =
                  ( IF f.supporting_papers >= 5 /\ scoreN >= 60 * s_len_claims
                      THEN "strong_consensus"
                    ELSE IF f.supporting_papers >= 3 /\ scoreN >= 40 * s_len_claims
                      THEN "moderate_consensus"
                    ELSE IF f.supporting_papers >= 2 THEN "weak_consensus"
                    ELSE "insufficient_evidence" )
            /\ f.supporting_papers = 2 => f.confidence_badge = "weak_consensus"

\* a record that stores 60.0, rounded up from below 60, with five papers or
\* more: its badge is moderate_consensus
C6_Witness ==
    /\ Len(s_fields) = 1
    /\ s_fields[1].supporting_papers >= 5
    /\ s_fields[1].consensus_score = 600
    /\ 1000 * s_supporting < 60 * s_len_claims
    /\ s_fields[1].confidence_badge = "moderate_consensus"

-----------------------------------------------------------------------------
(* Properties of _get_badge (specification SpecBadge) *)

BadgeRank(badge) ==
    CASE badge = "insufficient_evidence" -> 0
      [] badge = "weak_consensus"        -> 1
      [] badge = "moderate_consensus"    -> 2
      [] badge = "strong_consensus"      -> 3

\* C7: for one score and counts c1 <= c2 the badge of c2 is not lower than
\* the badge of c1.
C7_BadgeMonotoneInCount ==
    Len(b_badges) = 2 =>
        (b_count1 <= b_count2 => BadgeRank(b_badges[1]) <= BadgeRank(b_badges[2]))

\* a score below 40 with counts 2 and 3, where only the last rule keeps
\* the badge from falling
C7_Witness ==
    /\ Len(b_badges) = 2
    /\ b_count1 = 2 /\ b_count2 = 3
    /\ ~FracGE(b_score, 40)
    /\ b_badges = << "weak_consensus", "weak_consensus" >>

-----------------------------------------------------------------------------
(* Properties of repeated invocations (specification SpecInvoke) *)

\* C10: two invocations of compute_consensus on the same list return the
\* same mapping, whatever the model returns and in whatever order the set
\* of sentences iterates.
C10_SameListSameMapping ==
    \A i, j \in DOMAIN inv_returned : inv_returned[i] = inv_returned[j]

\* two invocations on a list with two distinct sentences (the model was
\* called) that returned a record
C10_Witness ==
    /\ Len(inv_returned) = 2
    /\ Cardinality(SentenceSet(inv_claims)) >= 2
    /\ DOMAIN inv_returned[2] # {}

\* C11: compute_consensus on the empty list returns the empty mapping and
\* does not call the embedding model, and no invocation divides by a
\* claim count of zero on line 133.
C11_EmptyListEmptyMapping ==
    /\ inv_claims = << >> =>
          /\ \A i \in DOMAIN inv_returned : inv_returned[i] = << >>
          /\ inv_encode = << >>
    /\ 0 \notin inv_divisors

\* compute_consensus has returned from a call on the empty list
C11_Witness ==
    /\ inv_claims = << >>
    /\ Len(inv_returned) >= 1

\* the claims of the list that carry the key, in the order of the list
SameKey(k) == SelectSeq(inv_claims, LAMBDA c : c.normalized_claim = k)

\* C15: the returned mapping is the one of the exact-key grouping, whatever
\* the embeddings and the similarity matrix are: its keys are the keys
\* carried by two claims or more, and the claims behind a record are the
\* claims whose normalized_claim equals its key.
C15_SimilarityDoesNotInterfere ==
    \A r \in DOMAIN inv_returned :
        /\ DOMAIN inv_returned[r] =
               { inv_claims[i].normalized_claim : i \in
                   { i \in DOMAIN inv_claims :
                       \E j \in DOMAIN inv_claims :
                           /\ j # i
                           /\ inv_claims[j].normalized_claim =
                                  inv_claims[i].normalized_claim } }
        /\ \A k \in DOMAIN inv_returned[r] :
              /\ inv_returned[r][k].supporting_snippets =
                     [ i \in 1..Len(SameKey(k)) |->
                         [ paper_id |-> SameKey(k)[i].paper_id,
                           sentence |-> SameKey(k)[i].sentence,
                           section  |-> SameKey(k)[i].section ] ]
              /\ inv_returned[r][k].supporting_papers =
                     Cardinality({ SameKey(k)[i].paper_id :
                                     i \in DOMAIN SameKey(k) })

\* the latest invocation returned a record although the similarity matrix
\* held 1.0 for two sentences of claims with different keys and 0.0 for two
\* sentences of claims with the same key
C15_Witness ==
    /\ inv_returned # << >>
    /\ DOMAIN inv_returned[Len(inv_returned)] # {}
    /\ inv_encode # << >>
    /\ LET us == inv_encode[1]
           KeysOf(sentence) ==
               { inv_claims[i].normalized_claim :
                   i \in { i \in DOMAIN inv_claims :
                             inv_claims[i].sentence = sentence } }
       IN  /\ \E i, j \in DOMAIN us :
                 /\ inv_similarity[i][j] = 10
                 /\ KeysOf(us[i]) \cap KeysOf(us[j]) = {}
           /\ \E i, j \in DOMAIN us :
                 /\ inv_similarity[i][j] = 0
                 /\ KeysOf(us[i]) = KeysOf(us[j])

\* C25: an invocation calls the embedding model at most once, with every
\* distinct sentence of the list exactly once in the batch, and not at all
\* for a list with fewer than two distinct sentences.
C25_EncodeOncePerSentence ==
    /\ Len(inv_encode) <= 1
    /\ \A c \in DOMAIN inv_encode :
          /\ { inv_encode[c][i] : i \in DOMAIN inv_encode[c] }
                = SentenceSet(inv_claims)
          /\ Len(inv_encode[c]) = Cardinality(SentenceSet(inv_claims))
    /\ Cardinality(SentenceSet(inv_claims)) < 2 => inv_encode = << >>

\* the model was called for a list with more claims than distinct sentences
C25_Witness ==
    /\ inv_encode # << >>
    /\ Len(inv_claims) > Len(inv_encode[1])

-----------------------------------------------------------------------------
(* Properties of the normalized key (specification SpecNormalize) *)

RECURSIVE Collapse(_)
\* every run of whitespace cut to one character
Collapse(chunks) ==
    IF Len(chunks) < 2 THEN chunks
    ELSE IF chunks[1] = " " /\ chunks[2] = " " THEN Collapse(Tail(chunks))
    ELSE << chunks[1] >> \o Collapse(Tail(chunks))

\* two strings that differ only in letter case or in whitespace: leading,
\* trailing, or the length of the runs inside
SameUpToCaseAndWhitespace(a, b) ==
    Lower(Collapse(Strip(a))) = Lower(Collapse(Strip(b)))

\* C16: the key is subject, predicate and object joined with '_', and two
\* matches whose parts differ only in letter case or in whitespace get the
\* same normalized_claim.
C16_KeyIsCanonical ==
    n_keys # << >> =>
        /\ \A k \in 1..2 :
              LET match == IF k = 1 THEN n_first ELSE n_second
              IN  n_keys[k] = Str(Lower(Strip(match[1]))) \o "_" \o
                              Str(Lower(Strip(match[2]))) \o "_" \o
                              Str(Lower(Strip(match[3])))
        /\ (\A part \in 1..3 :
               SameUpToCaseAndWhitespace(n_first[part], n_second[part]))
               => n_keys[1] = n_keys[2]

\* subject, predicate and object as the claim dictionary holds them
Triple(match) ==
    << Str(Lower(Strip(match[1]))), Str(Lower(Strip(match[2]))),
       Str(Lower(Strip(match[3]))) >>

\* C26: two claims with the same normalized_claim have the same subject,
\* predicate and object, so the claim text of a record, rendered from the
\* first claim of the group, is the one of each claim of the group.
C26_KeyIsInjective ==
    n_keys # << >> =>
        /\ n_keys[1] = n_keys[2] => Triple(n_first) = Triple(n_second)
        /\ \A k \in DOMAIN n_data :
              \A match \in {n_first, n_second} :
                 n_data[k].claim =
                     Triple(match)[1] \o " " \o Triple(match)[2]
                         \o " " \o Triple(match)[3]

-----------------------------------------------------------------------------
(* Properties of an analyzer used again (specification SpecReuse) *)

\* C17: whatever lists the analyzer was invoked on before, the latest
\* invocation returned what a new analyzer returns for its list, and the
\* analyzer's attribute is as the constructor set it.
C17_StatelessBetweenRuns ==
    r_calls > 0 =>
        /\ r_result = compute_consensus(r_claims, FirstSeen(r_claims),
                          [ i \in 1..Cardinality(SentenceSet(r_claims)) |-> "u" ])
        /\ r_threshold = 75

\* after two invocations or more, the latest list holds one claim of a key
\* that earlier lists held too
C17_Witness ==
    /\ r_calls >= 2
    /\ \E k \in r_earlier :
          /\ Cardinality({ i \in DOMAIN r_claims :
                             r_claims[i].normalized_claim = k }) = 1
          /\ k \notin DOMAIN r_result

-----------------------------------------------------------------------------
(* Properties of two concurrent passes (specification SpecConcurrent) *)

\* C18: however the steps of the two passes interleave, each pass returns
\* the mapping compute_consensus gives for its own list alone.
C18_ConcurrentPassesIndependent ==
    \A pass \in DOMAIN c_returned :
        c_returned[pass] # << >> =>
            c_returned[pass][1] =
                compute_consensus(
                    c_claims[pass], FirstSeen(c_claims[pass]),
                    [ i \in 1..Cardinality(SentenceSet(c_claims[pass])) |-> "u" ])

\* both passes returned a record for the same key, having taken steps
\* while the other was in progress
C18_Witness ==
    /\ c_overlap
    /\ \A pass \in DOMAIN c_returned : c_returned[pass] # << >>
    /\ \E k \in DOMAIN c_returned[1][1] : k \in DOMAIN c_returned[2][1]

-----------------------------------------------------------------------------
(* Properties of extract_from_text (specification SpecExtract) *)

\* no pattern finds a match in any piece of the text
NoPatternMatches(text) ==
    \A i \in DOMAIN text :
        \A p \in DOMAIN text[i].found : text[i].found[p] = << >>

\* C20: for the empty text and for a text in which no pattern matches,
\* extract_from_text returns the empty list.
C20_NoMatchNoClaims ==
    (x_returned # << >> /\ (x_text = EmptyText \/ NoPatternMatches(x_text)))
        => x_returned[1] = << >>

\* the call returned for a text with a sentence of five words or more in
\* which nothing matches
C20_Witness ==
    /\ x_returned # << >>
    /\ NoPatternMatches(x_text)
    /\ \E i \in DOMAIN x_text : WordCount(Strip(x_text[i].raw)) >= 5

\* C21: every returned claim comes from a piece of the text that has five
\* tokens or more after trimming and carries that trimmed piece as its
\* sentence; a piece with fewer tokens yields no claim, whatever matches
\* in it.
C21_ClaimsComeFromLongSentences ==
    x_returned # << >> =>
        \A k \in DOMAIN x_returned[1] :
            LET i == x_returned[1][k].sentence_idx + 1
            IN  /\ i \in DOMAIN x_text
                /\ WordCount(Strip(x_text[i].raw)) >= 5
                /\ x_returned[1][k].sentence = Str(Strip(x_text[i].raw))

\* the call returned claims for a text that also holds a piece of fewer
\* than five tokens in which a pattern matches
C21_Witness ==
    /\ x_returned # << >>
    /\ x_returned[1] # << >>
    /\ \E i \in DOMAIN x_text :
          /\ WordCount(Strip(x_text[i].raw)) < 5
          /\ \E p \in DOMAIN x_text[i].found : x_text[i].found[p] # << >>

\* sentence i is before sentence j, or pattern p before q in one sentence,
\* or match m before n of one pattern in one sentence
Before(a, b) ==
    \/ a[1] < b[1]
    \/ a[1] = b[1] /\ a[2] < b[2]
    \/ a[1] = b[1] /\ a[2] = b[2] /\ a[3] < b[3]

\* the (sentence, pattern, match) triples of the retained sentences
Found(text) ==
    { <<i, p, m>> \in (DOMAIN text) \X (1..4) \X (1..2) :
        /\ WordCount(Strip(text[i].raw)) >= 5
        /\ m \in DOMAIN text[i].found[p] }

\* C22: the returned list holds one claim per (retained sentence, pattern,
\* match), in that order, each with the call's paper_id and section, the
\* trimmed sentence and confidence 0.7.
C22_OneClaimPerMatch ==
    x_returned # << >> =>
        /\ Len(x_returned[1]) = Cardinality(Found(x_text))
        /\ \A t \in Found(x_text) :
              LET k     == Cardinality({ u \in Found(x_text) : Before(u, t) }) + 1
                  claim == x_returned[1][k]
                  match == x_text[t[1]].found[t[2]][t[3]]
              IN  /\ claim.sentence_idx = t[1] - 1
                  /\ claim.sentence = Str(Strip(x_text[t[1]].raw))
                  /\ claim.paper_id = x_paper_id
                  /\ claim.section = x_section
                  /\ claim.confidence = Frac(7, 10)
                  /\ claim.subject = Str(Lower(Strip(match[1])))
                  /\ claim.predicate = Str(Lower(Strip(match[2])))
                  /\ claim.object = Str(Lower(Strip(match[3])))

\* the call returned for a text with a sentence in which one pattern
\* matches twice and a sentence in which two patterns match
C22_Witness ==
    /\ x_returned # << >>
    /\ \E i \in DOMAIN x_text :
          \E p \in 1..4 : Len(x_text[i].found[p]) = 2
    /\ \E i \in DOMAIN x_text :
          \E p, q \in 1..4 :
              p # q /\ x_text[i].found[p] # << >> /\ x_text[i].found[q] # << >>
    /\ \E k, l \in DOMAIN x_returned[1] : k # l /\ x_returned[1][k] = x_returned[1][l]

-----------------------------------------------------------------------------
(* Properties of a grown list (specification SpecGrow) *)

\* C23: when claims whose keys do not occur in a list are put into it,
\* every key emitted for the list is emitted for the grown list, with the
\* same supporting_papers and a consensus_score that is not larger.
C23_ScoresShrink ==
    (/\ g_data # << >>
     /\ \A i \in DOMAIN g_grown :
           \/ \E j \in DOMAIN g_list : g_list[j] = g_grown[i]
           \/ \A j \in DOMAIN g_list :
                 g_list[j].normalized_claim # g_grown[i].normalized_claim)
    => \A k \in DOMAIN g_data[1] :
          /\ k \in DOMAIN g_data[2]
          /\ g_data[2][k].supporting_papers = g_data[1][k].supporting_papers
          /\ g_data[2][k].consensus_score <= g_data[1][k].consensus_score

\* a key whose score is smaller for the grown list, which also has a record
\* of a key put in
C23_Witness ==
    /\ g_data # << >>
    /\ \E k \in DOMAIN g_data[1] :
          g_data[2][k].consensus_score < g_data[1][k].consensus_score
    /\ \E k \in DOMAIN g_data[2] : k \notin DOMAIN g_data[1]

-----------------------------------------------------------------------------
(* Properties of the objects of an invocation (specification SpecObjects) *)

\* C24: after the call, also after the caller wrote to a returned snippet,
\* the list has the length, the order and the objects it had and every
\* object has the field values it had; the snippets of the returned
\* records are other objects, with the paper_id, sentence and section of
\* their claims.
C24_InputUnchanged ==
    o_before # << >> =>
        /\ o_claims = o_before[1].claims
        /\ \A i \in DOMAIN o_claims :
              o_heap[o_claims[i]] = o_before[1].heap[o_claims[i]]
        /\ \A k \in DOMAIN o_returned[1] :
              \A j \in DOMAIN o_returned[1][k].supporting_snippets :
                 LET ref == o_returned[1][k].supporting_snippets[j]
                 IN  /\ \A i \in DOMAIN o_claims : o_claims[i] # ref
                     /\ ~o_edited =>
                           \E i \in DOMAIN o_claims :
                              /\ o_heap[o_claims[i]].normalized_claim = k
                              /\ o_heap[ref] =
                                    [ paper_id |-> o_heap[o_claims[i]].paper_id,
                                      sentence |-> o_heap[o_claims[i]].sentence,
                                      section  |-> o_heap[o_claims[i]].section ]

\* the caller wrote to a snippet of a returned record
C24_Witness ==
    /\ o_before # << >>
    /\ o_edited
    /\ \E k \in DOMAIN o_returned[1] :
          \E j \in DOMAIN o_returned[1][k].supporting_snippets :
             o_heap[o_returned[1][k].supporting_snippets[j]].sentence = "edited"

\* ---- specification SpecChunkFair ----

\* C27: chunk_text_for_model returns for every text of at least 100
\* characters that the tokenizer takes: once the tokens are there and the
\* loop is entered, the call comes to its return, also when the last window
\* has reached the end of the tokens.
C27_ChunkingTerminates == (k_pc = "loop") ~> (k_pc = "returned")

\* ---- specification SpecDownload ----

\* C29: download_papers counts every row it has gone through once: the
\* counters of stats add up to the number of rows iterated at every pass and
\* to the number of rows when it returns; in nasa_pipeline_all_in_one these
\* are downloaded, failed, html_saved and already_exists.  A row whose target
\* PDF exists is counted without a copy and without a request.
C29_EachRowCountedOnce ==
    /\ StatsTotal(d_stats) = d_idx
    /\ d_pc = "returned" => d_idx = d_rows
    /\ d_variant = "all_in_one" =>
           d_stats.downloaded + d_stats.failed + d_stats.html_saved
               + d_stats.already_exists = d_idx
    /\ \A w \in DOMAIN d_last :
           d_last[w].existed =>
               /\ ~d_last[w].copy /\ ~d_last[w].get
               /\ d_last[w].files = d_files

\* a call of nasa_pipeline_all_in_one over three rows has returned with a
\* download after a failed copy, a saved page, and a last row whose PDF was
\* there
C29_Witness ==
    /\ d_pc = "returned"
    /\ d_variant = "all_in_one"
    /\ d_rows = 3
    /\ d_stats.downloaded = 1
    /\ d_stats.html_saved = 1
    /\ d_stats.already_exists = 1
    /\ d_last[1].existed

=============================================================================
